---- MODULE Spec2Model ----
(***************************************************************************)
(* The live query cache of packages/database/src/database.ts (LiveData,    *)
(* the batched watch resolver, watchQueryToLiveData's acquire and release) *)
(* and the visibility engine of packages/database/src/visibility and      *)
(* convex/shared/visibility.ts, as state machines.                        *)
(***************************************************************************)
EXTENDS Integers, Sequences, FiniteSets, TLC

\* ------------------------------------------------------------------ bounds
\* acquisitions (calls of watchQueryToLiveData) in one behaviour
MaxAcq == 3
\* requests handed to the resolver in one pass
MaxBatch == 2
\* resolver passes that may be awaiting the upstream client at the same time
MaxPasses == 2

\* cache keys: JSON.stringify({functionName, args}) of the requests issued
Keys == {"K1", "K2"}
Undefined == "undefined"
Null == "null"
\* values the upstream client can return or deliver
Values == {Undefined, Null, "v1"}

VARIABLES
  activeWatches,      \* Map<string, ActiveWatch>: key -> [liveData, unsubscribe, refCount]
  liveDataCacheKeys,  \* WeakMap<LiveData, string>
  acq,                \* the acquisitions made so far: [key, st, ld]
  passes,             \* resolver passes suspended on the upstream client
  ldData,             \* LiveData._data, per LiveData
  ldUnsub,            \* the LiveData whose unsubscribe field is still set
  callbacks,          \* per watch closure: the callbacks set
  upstream,           \* watches whose client.onUpdate subscription is registered
  cancelled,          \* acquisitions whose scope was closed before their fetch resolved
  vcall               \* the visibility-engine call in progress: [fn, in, out]

cacheVars == <<activeWatches, liveDataCacheKeys, acq, passes, ldData, ldUnsub,
               callbacks, upstream, cancelled>>

vars == <<cacheVars, vcall>>

Idle == [fn |-> "idle"]

\* ------------------------------------------------------------- helpers
\* JavaScript's a ?? b
Nullish(a, b) == IF a \in {Undefined, Null} THEN b ELSE a

\* Map.set / WeakMap.set
MapSet(m, k, v) == [x \in (DOMAIN m) \cup {k} |-> IF x = k THEN v ELSE m[x]]

\* Map.delete / WeakMap.delete
MapDelete(m, k) == [x \in (DOMAIN m) \ {k} |-> m[x]]

Batches == UNION {[1..n -> Keys] : n \in 1..MaxBatch}

\* --------------------------------------------------------------- LiveData
\* new LiveData(getCurrentValue, onUpdate, initialData): this._data
LiveDataInit(getCurrentValue, initialData) == Nullish(initialData, getCurrentValue)

\* a callback that also ignores a delivered null
LiveDataCallbackSkipsNull(data, newData) ==
  IF newData \notin {Undefined, Null} THEN newData ELSE data

\* the callback LiveData registers: newData = getCurrentValue(); if defined, store it
LiveDataCallback(data, newData) == IF newData # Undefined THEN newData ELSE data

\* --------------------------------------------------------------- resolver
\* the for loop of watchResolver from request i on, as far as it runs without
\* awaiting the client: every request whose key has an ActiveWatch takes the
\* dedup path (refCount++, Request.complete with existing.liveData)
RECURSIVE ResolverLoop(_, _, _, _)
ResolverLoop(aw, ac, reqs, i) ==
  IF i > Len(reqs)
    THEN [aw |-> aw, acq |-> ac, i |-> i]
    ELSE LET a == reqs[i]
             k == ac[a].key
         IN IF k \in DOMAIN aw
              THEN ResolverLoop([aw EXCEPT ![k].refCount = @ + 1],
                                [ac EXCEPT ![a].st = "done", ![a].ld = aw[k].liveData],
                                reqs, i + 1)
              ELSE [aw |-> aw, acq |-> ac, i |-> i]

\* run the pass on from request i; it either suspends on client.query for the
\* next request without an ActiveWatch, or ends. The requests it completed are
\* "done": their requesters resume in steps of their own
Resume(aw, ac, ps, reqs, i) ==
  LET r == ResolverLoop(aw, ac, reqs, i)
  IN /\ activeWatches' = r.aw
     /\ acq' = r.acq
     /\ liveDataCacheKeys' = liveDataCacheKeys
     /\ passes' = IF r.i > Len(reqs)
                    THEN ps
                    ELSE ps \cup {[reqs |-> reqs, i |-> r.i, pc |-> "query", cur |-> Undefined]}

\* the requester of the completed request a resumes after Effect.request in
\* watchQueryToLiveData: liveDataCacheKeys.set(liveData, request.cacheKey), and
\* the acquire returns the LiveData
FinishAcquire(a) ==
  /\ a \in DOMAIN acq /\ acq[a].st = "done"
  /\ liveDataCacheKeys' = MapSet(liveDataCacheKeys, acq[a].ld, acq[a].key)
  /\ acq' = [acq EXCEPT ![a].st = "held"]
  /\ UNCHANGED <<activeWatches, passes, ldData, ldUnsub, callbacks, upstream, vcall, cancelled>>

\* watchQueryToLiveData is called for each key of batch; the requests reach the
\* resolver in one pass
StartPassWithin(batch, maxAcq) ==
  /\ Len(acq) + Len(batch) <= maxAcq
  /\ Cardinality(passes) < MaxPasses
  /\ LET n == Len(acq)
         reqs == [j \in 1..Len(batch) |-> n + j]
         ac == acq \o [j \in 1..Len(batch) |-> [key |-> batch[j], st |-> "pending", ld |-> 0]]
     IN Resume(activeWatches, ac, passes, reqs, 1)
  /\ UNCHANGED <<ldData, ldUnsub, callbacks, upstream, vcall, cancelled>>

StartPass(batch) == StartPassWithin(batch, MaxAcq)

\* client.query resolves with v
QueryOk(p, v) ==
  /\ p \in passes /\ p.pc = "query"
  /\ passes' = (passes \ {p}) \cup {[p EXCEPT !.pc = "subscribe", !.cur = v]}
  /\ UNCHANGED <<activeWatches, liveDataCacheKeys, acq, ldData, ldUnsub, callbacks, upstream, vcall, cancelled>>

\* a failure path that leaves a half-built ActiveWatch behind for the failed request
FailRequestLeavesEntry(p) ==
  LET a == p.reqs[p.i]
  IN /\ Resume(MapSet(activeWatches, acq[a].key, [liveData |-> a, unsubscribe |-> a, refCount |-> 1]),
               [acq EXCEPT ![a].st = "failed"], passes \ {p}, p.reqs, p.i + 1)
     /\ UNCHANGED <<ldData, ldUnsub, callbacks, upstream, vcall, cancelled>>

\* the request's effect failed: Request.complete(request, failure), next request
FailRequest(p) ==
  LET a == p.reqs[p.i]
  IN /\ Resume(activeWatches, [acq EXCEPT ![a].st = "failed"], passes \ {p}, p.reqs, p.i + 1)
     /\ UNCHANGED <<ldData, ldUnsub, callbacks, upstream, vcall, cancelled>>

\* client.query fails with a ConvexError
QueryFail(p) ==
  /\ p \in passes /\ p.pc = "query"
  /\ FailRequest(p)

\* client.onUpdate fails with a ConvexError
SubscribeFail(p) ==
  /\ p \in passes /\ p.pc = "subscribe"
  /\ FailRequest(p)

\* client.onUpdate registered: new LiveData, activeWatches.set, Request.complete
SubscribeOk(p) ==
  /\ p \in passes /\ p.pc = "subscribe"
  /\ LET a == p.reqs[p.i]
         k == acq[a].key
         w == a
     IN /\ upstream' = upstream \cup {w}
        /\ ldData' = MapSet(ldData, w, LiveDataInit(p.cur, p.cur))
        /\ callbacks' = MapSet(callbacks, w, {w})
        /\ ldUnsub' = ldUnsub \cup {w}
        /\ Resume(MapSet(activeWatches, k, [liveData |-> w, unsubscribe |-> w, refCount |-> 1]),
                  [acq EXCEPT ![a].st = "done", ![a].ld = w],
                  passes \ {p}, p.reqs, p.i + 1)
        /\ UNCHANGED <<vcall, cancelled>>

\* a release that decrements refCount but leaves the entry in the map at 0
ReleaseKeepsEntry(a) ==
  /\ a \in DOMAIN acq /\ acq[a].st = "held"
  /\ LET l == acq[a].ld
     IN /\ IF l \in DOMAIN liveDataCacheKeys
             THEN LET cacheKey == liveDataCacheKeys[l]
                  IN /\ IF cacheKey \in DOMAIN activeWatches
                          THEN /\ upstream' = upstream
                               /\ activeWatches' =
                                    [activeWatches EXCEPT ![cacheKey].refCount = @ - 1]
                          ELSE UNCHANGED <<upstream, activeWatches>>
                     /\ liveDataCacheKeys' = MapDelete(liveDataCacheKeys, l)
             ELSE UNCHANGED <<upstream, activeWatches, liveDataCacheKeys>>
        /\ IF l \in ldUnsub
             THEN /\ callbacks' = [callbacks EXCEPT ![l] = @ \ {l}]
                  /\ ldUnsub' = ldUnsub \ {l}
             ELSE UNCHANGED <<callbacks, ldUnsub>>
        /\ acq' = [acq EXCEPT ![a].st = "released"]
  /\ UNCHANGED <<passes, ldData, vcall, cancelled>>

\* the release of watchQueryToLiveData's acquireRelease, for acquisition a
Release(a) ==
  /\ a \in DOMAIN acq /\ acq[a].st = "held"
  /\ LET l == acq[a].ld
     IN /\ IF l \in DOMAIN liveDataCacheKeys
             THEN LET cacheKey == liveDataCacheKeys[l]
                  IN /\ IF cacheKey \in DOMAIN activeWatches
                          THEN LET watch == activeWatches[cacheKey]
                               IN IF watch.refCount - 1 = 0
                                    THEN /\ upstream' = upstream \ {watch.unsubscribe}
                                         /\ activeWatches' = MapDelete(activeWatches, cacheKey)
                                    ELSE /\ upstream' = upstream
                                         /\ activeWatches' =
                                              [activeWatches EXCEPT ![cacheKey].refCount = @ - 1]
                          ELSE UNCHANGED <<upstream, activeWatches>>
                     /\ liveDataCacheKeys' = MapDelete(liveDataCacheKeys, l)
             ELSE UNCHANGED <<upstream, activeWatches, liveDataCacheKeys>>
        \* liveData.destroy()
        /\ IF l \in ldUnsub
             THEN /\ callbacks' = [callbacks EXCEPT ![l] = @ \ {l}]
                  /\ ldUnsub' = ldUnsub \ {l}
             ELSE UNCHANGED <<callbacks, ldUnsub>>
        /\ acq' = [acq EXCEPT ![a].st = "released"]
  /\ UNCHANGED <<passes, ldData, vcall, cancelled>>

\* callbacks.forEach((cb) => cb()): the LiveData whose callback watch w invokes
Invoked(w) == callbacks[w]

\* a delivery that runs the callbacks of every watch instead of the callbacks of w
OnUpdateAllCallbacks(w, v) ==
  /\ w \in upstream
  /\ LET currentValue == v
         all == UNION {callbacks[x] : x \in DOMAIN callbacks}
     IN ldData' = [l \in DOMAIN ldData |->
                     IF l \in all THEN LiveDataCallback(ldData[l], currentValue)
                                  ELSE ldData[l]]
  /\ UNCHANGED <<activeWatches, liveDataCacheKeys, acq, passes, ldUnsub, callbacks, upstream, vcall, cancelled>>

\* the upstream subscription of watch w delivers v
OnUpdate(w, v) ==
  /\ w \in upstream
  /\ LET currentValue == v
     IN ldData' = [l \in DOMAIN ldData |->
                     IF l \in Invoked(w) THEN LiveDataCallback(ldData[l], currentValue)
                                         ELSE ldData[l]]
  /\ UNCHANGED <<activeWatches, liveDataCacheKeys, acq, passes, ldUnsub, callbacks, upstream, vcall, cancelled>>

\* the scope of acquisition a is closed (or its fiber interrupted) while its request
\* is unresolved; Effect.acquireRelease runs the acquire uninterruptibly, so the
\* request still completes and the release runs afterwards
Cancel(a) ==
  /\ a \in DOMAIN acq /\ acq[a].st = "pending"
  /\ a \notin cancelled
  /\ cancelled' = cancelled \cup {a}
  /\ UNCHANGED <<activeWatches, liveDataCacheKeys, acq, passes, ldData, ldUnsub, callbacks,
                 upstream, vcall>>

\* ------------------------------------------------------- visibility engine
\* messages in one batch handed to the engine
MaxMsgs == 2

\* null, where the value is otherwise an object
JsNull == [null |-> TRUE]

\* an optional boolean field or argument: undefined, true or false
OptBools == {Undefined, "true", "false"}

ServerContexts ==
  [considerAllMessagesPublicEnabled : BOOLEAN, anonymizeMessagesEnabled : BOOLEAN]

UserContexts == {JsNull} \cup [canPubliclyDisplayMessages : BOOLEAN]

Servers == {"s1", "s2"}

\* author ids, as the char codes of the id string ("a", "b")
AuthorIds == {<<97>>, <<98>>}

\* the DiscordAccount row of each author; the avatar is optional
AuthorOf(id) ==
  IF id = <<97>> THEN [id |-> id, name |-> "alice", avatar |-> "alice.png"]
                 ELSE [id |-> id, name |-> "bob", avatar |-> Undefined]

\* Map<string, DiscordAccount> holding the rows of the ids in present
AuthorMapOf(present) == [id \in present |-> AuthorOf(id)]

MessageBatches ==
  UNION {[1..n -> [authorId : AuthorIds, serverId : Servers]] : n \in 0..MaxMsgs}

\* the Message rows of a batch; the position is the message id
MessagesOf(batch) ==
  [i \in 1..Len(batch) |->
     [id |-> i, authorId |-> batch[i].authorId, serverId |-> batch[i].serverId]]

MaxInt32 == 2147483647
MinInt32 == -MaxInt32 - 1

\* hash << 5, on a 32-bit integer
ShiftLeft5(h) ==
  LET u == h % 134217728
  IN IF u >= 67108864 THEN (u - 134217728) * 32 ELSE u * 32

\* a + b followed by hash & hash (ToInt32)
WrapAdd(a, b) ==
  IF a >= 0 /\ b >= 0 /\ a > MaxInt32 - b THEN (a + MinInt32) + (b + MinInt32)
  ELSE IF a < 0 /\ b < 0 /\ a < MinInt32 - b THEN (a - MinInt32) + (b - MinInt32)
  ELSE a + b

\* a - b followed by hash & hash (ToInt32)
WrapSub(a, b) ==
  IF a >= 0 /\ b < 0 /\ a > MaxInt32 + b THEN (a + MinInt32) - (b - MinInt32)
  ELSE IF a < 0 /\ b >= 0 /\ a < MinInt32 + b THEN (a - MinInt32) - (b + MinInt32)
  ELSE a - b

\* the loop of simpleHash over the char codes of str: the 32-bit hash before Math.abs
RECURSIVE simpleHashLoop(_, _, _)
simpleHashLoop(str, i, hash) ==
  IF i > Len(str) THEN hash
  ELSE simpleHashLoop(str, i + 1, WrapAdd(WrapSub(ShiftLeft5(hash), hash), str[i]))

\* a list in which one adjective was written twice
adjectivesWithDuplicate ==
  <<"Anonymous", "Unknown", "Mysterious", "Anonymous", "Secret", "Private", "Unnamed",
    "Unidentified">>

adjectives ==
  <<"Anonymous", "Unknown", "Mysterious", "Hidden", "Secret", "Private", "Unnamed",
    "Unidentified">>

\* hash % n on the 32-bit hash itself, Math.abs left out: the sign of the dividend
RemainderOfSigned(hash, n) ==
  IF hash = MinInt32 THEN 0 - (((MaxInt32 % n) + 1) % n)
  ELSE IF hash < 0 THEN 0 - ((-hash) % n) ELSE hash % n

\* Math.abs(hash) % n; Math.abs(-2^31) is 2^31
AbsMod(hash, n) ==
  IF hash = MinInt32 THEN ((MaxInt32 % n) + 1) % n
  ELSE IF hash < 0 THEN (-hash) % n ELSE hash % n

\* array[index]: undefined when index is not an index of the array
ArrayGet(array, index) ==
  IF index \in 0..(Len(array) - 1) THEN array[index + 1] ELSE Undefined

\* `${adjective} User`, adjective being adjectives[hash % adjectives.length]
generateAnonymousName(authorId) ==
  ArrayGet(adjectives, AbsMod(simpleHashLoop(authorId, 1, 0), Len(adjectives))) \o " User"

\* a pseudo-name chosen from the display name instead of the id
anonymizeAuthorFromName(author) ==
  [id |-> author.id,
   name |-> (IF author.name = "alice" THEN adjectives[1] ELSE adjectives[2]) \o " User",
   avatar |-> Null]

anonymizeAuthor(author) ==
  [id |-> author.id, name |-> generateAnonymousName(author.id), avatar |-> Null]

computeServerVisibility(considerAllMessagesPublicEnabled, anonymizeMessagesEnabled) ==
  [considerAllMessagesPublicEnabled |->
     IF considerAllMessagesPublicEnabled = Undefined THEN FALSE
     ELSE considerAllMessagesPublicEnabled = "true",
   anonymizeMessagesEnabled |->
     IF anonymizeMessagesEnabled = Undefined THEN FALSE
     ELSE anonymizeMessagesEnabled = "true"]

\* a falsy test in place of the test for undefined
computeUserVisibilityFalsyIsNull(canPubliclyDisplayMessages) ==
  IF canPubliclyDisplayMessages # "true" THEN JsNull
  ELSE [canPubliclyDisplayMessages |-> TRUE]

computeUserVisibility(canPubliclyDisplayMessages) ==
  IF canPubliclyDisplayMessages = Undefined THEN JsNull
  ELSE [canPubliclyDisplayMessages |-> (canPubliclyDisplayMessages = "true")]

isMessagePublicFlagOnly(serverVisibility, userVisibility) ==
  serverVisibility.considerAllMessagesPublicEnabled

isMessagePublic(serverVisibility, userVisibility) ==
  IF serverVisibility.considerAllMessagesPublicEnabled THEN TRUE
  ELSE IF userVisibility = JsNull THEN FALSE
  ELSE userVisibility.canPubliclyDisplayMessages

shouldAnonymizeAuthorFlagOnly(serverVisibility, userVisibility, isPublic) ==
  serverVisibility.anonymizeMessagesEnabled

shouldAnonymizeAuthor(serverVisibility, userVisibility, isPublic) ==
  IF ~isPublic THEN TRUE
  ELSE serverVisibility.anonymizeMessagesEnabled

\* an anonymization that copies the avatar of the row
applyVisibilityToAuthorKeepsAvatar(author, visibility, isPublic) ==
  IF author = JsNull THEN JsNull
  ELSE IF shouldAnonymizeAuthor(visibility.server, visibility.user, isPublic)
         THEN [id |-> author.id, name |-> generateAnonymousName(author.id),
               avatar |-> Nullish(author.avatar, Null), public |-> FALSE]
         ELSE [id |-> author.id, name |-> author.name,
               avatar |-> Nullish(author.avatar, Null), public |-> isPublic]

\* a transform that drops the author of a message that is not public
applyVisibilityToAuthorHidesPrivate(author, visibility, isPublic) ==
  IF author = JsNull \/ ~isPublic THEN JsNull
  ELSE IF shouldAnonymizeAuthor(visibility.server, visibility.user, isPublic)
         THEN [id |-> author.id, name |-> generateAnonymousName(author.id),
               avatar |-> Null, public |-> FALSE]
         ELSE [id |-> author.id, name |-> author.name,
               avatar |-> Nullish(author.avatar, Null), public |-> isPublic]

applyVisibilityToAuthorNoAnonymize(author, visibility, isPublic) ==
  IF author = JsNull THEN JsNull
  ELSE [id |-> author.id, name |-> author.name,
        avatar |-> Nullish(author.avatar, Null), public |-> isPublic]

applyVisibilityToAuthor(author, visibility, isPublic) ==
  IF author = JsNull THEN JsNull
  ELSE LET shouldAnonymize == shouldAnonymizeAuthor(visibility.server, visibility.user, isPublic)
       IN IF shouldAnonymize
            THEN [id |-> anonymizeAuthor(author).id, name |-> anonymizeAuthor(author).name,
                  avatar |-> anonymizeAuthor(author).avatar, public |-> FALSE]
            ELSE [id |-> author.id, name |-> author.name,
                  avatar |-> Nullish(author.avatar, Null), public |-> isPublic]

\* map.get(key) ?? null
GetOrNull(map, key) == IF key \in DOMAIN map THEN map[key] ELSE JsNull

\* a transform that leaves out the messages whose author row is missing
applyVisibilityToMessagesSkipMissing(messages, serverVisibility, authorMap, authorVisibilityMap) ==
  LET HasAuthor(m) == m.authorId \in DOMAIN authorMap
      kept == SelectSeq(messages, HasAuthor)
  IN [i \in 1..Len(kept) |->
        LET message == kept[i]
            author == GetOrNull(authorMap, message.authorId)
            authorVisibility == GetOrNull(authorVisibilityMap, message.authorId)
            isPublic == isMessagePublic(serverVisibility, authorVisibility)
            visibility == [server |-> serverVisibility, user |-> authorVisibility]
        IN [message |-> [id |-> message.id, authorId |-> message.authorId,
                         serverId |-> message.serverId, public |-> isPublic],
            author |-> applyVisibilityToAuthor(author, visibility, isPublic)]]

\* a transform that judges a message by the author's consent alone
applyVisibilityToMessagesConsentOnly(messages, serverVisibility, authorMap, authorVisibilityMap) ==
  [i \in 1..Len(messages) |->
     LET message == messages[i]
         author == GetOrNull(authorMap, message.authorId)
         authorVisibility == GetOrNull(authorVisibilityMap, message.authorId)
         isPublic == authorVisibility # JsNull /\ authorVisibility.canPubliclyDisplayMessages
         visibility == [server |-> serverVisibility, user |-> authorVisibility]
     IN [message |-> [id |-> message.id, authorId |-> message.authorId,
                      serverId |-> message.serverId, public |-> isPublic],
         author |-> applyVisibilityToAuthor(author, visibility, isPublic)]]

applyVisibilityToMessages(messages, serverVisibility, authorMap, authorVisibilityMap) ==
  [i \in 1..Len(messages) |->
     LET message == messages[i]
         author == GetOrNull(authorMap, message.authorId)
         authorVisibility == GetOrNull(authorVisibilityMap, message.authorId)
         isPublic == isMessagePublic(serverVisibility, authorVisibility)
         visibility == [server |-> serverVisibility, user |-> authorVisibility]
     IN [message |-> [id |-> message.id, authorId |-> message.authorId,
                      serverId |-> message.serverId, public |-> isPublic],
         author |-> applyVisibilityToAuthor(author, visibility, isPublic)]]

\* Array.from(new Set(items)): the distinct items in order of first occurrence
RECURSIVE Unique(_)
Unique(items) ==
  IF items = <<>> THEN <<>>
  ELSE LET front == Unique(SubSeq(items, 1, Len(items) - 1))
           x == items[Len(items)]
       IN IF \E j \in 1..Len(front) : front[j] = x THEN front ELSE Append(front, x)

\* the database read by the engine: db.prefs holds the serverPreferences rows
\* ([considerAllMessagesPublicEnabled, anonymizeMessagesEnabled], optional fields),
\* db.settings the userServerSettings rows, by <<userId, serverId>>
getServerVisibilityContext(db, serverId) ==
  IF serverId \in DOMAIN db.prefs
    THEN computeServerVisibility(db.prefs[serverId].considerAllMessagesPublicEnabled,
                                 db.prefs[serverId].anonymizeMessagesEnabled)
    ELSE computeServerVisibility(Undefined, Undefined)

\* a lookup of consent by user alone: the user's rows of every server
getAuthorVisibilityContextsAnyServer(db, serverId, authorIds) ==
  LET uniqueAuthorIds == Unique(authorIds)
  IN [authorId \in {uniqueAuthorIds[j] : j \in 1..Len(uniqueAuthorIds)} |->
        IF \E key \in DOMAIN db.settings : key[1] = authorId
          THEN computeUserVisibility(
                 IF \E key \in DOMAIN db.settings :
                      key[1] = authorId /\ db.settings[key].canPubliclyDisplayMessages
                   THEN "true" ELSE "false")
          ELSE computeUserVisibility(Undefined)]

getAuthorVisibilityContexts(db, serverId, authorIds) ==
  LET uniqueAuthorIds == Unique(authorIds)
  IN [authorId \in {uniqueAuthorIds[j] : j \in 1..Len(uniqueAuthorIds)} |->
        IF <<authorId, serverId>> \in DOMAIN db.settings
          THEN computeUserVisibility(
                 IF db.settings[<<authorId, serverId>>].canPubliclyDisplayMessages
                   THEN "true" ELSE "false")
          ELSE computeUserVisibility(Undefined)]

\* arrays.flat()
RECURSIVE Flat(_)
Flat(arrays) ==
  IF arrays = <<>> THEN <<>> ELSE Head(arrays) \o Flat(Tail(arrays))

\* a sanitizer that handles the messages one by one, in input order
getSanitizedMessagesInInputOrder(db, messages, authorMap) ==
  Flat([i \in 1..Len(messages) |->
          applyVisibilityToMessages(
            <<messages[i]>>,
            getServerVisibilityContext(db, messages[i].serverId),
            authorMap,
            getAuthorVisibilityContexts(db, messages[i].serverId, <<messages[i].authorId>>))])

getSanitizedMessages(db, messages, authorMap) ==
  IF Len(messages) = 0 THEN <<>>
  ELSE
    LET serverIds == Unique([i \in 1..Len(messages) |-> messages[i].serverId])
        sanitizedMessagesByServer ==
          [s \in 1..Len(serverIds) |->
             LET serverId == serverIds[s]
                 OfServer(m) == m.serverId = serverId
                 serverMessages == SelectSeq(messages, OfServer)
                 serverAuthorIds ==
                   Unique([i \in 1..Len(serverMessages) |-> serverMessages[i].authorId])
                 serverVisibility == getServerVisibilityContext(db, serverId)
                 authorVisibilityMap == getAuthorVisibilityContexts(db, serverId, serverAuthorIds)
                 serverAuthorMap ==
                   [id \in {serverAuthorIds[j] : j \in 1..Len(serverAuthorIds)}
                            \cap DOMAIN authorMap |-> authorMap[id]]
             IN applyVisibilityToMessages(serverMessages, serverVisibility,
                                          serverAuthorMap, authorVisibilityMap)]
    IN Flat(sanitizedMessagesByServer)

\* the database reads of getServerVisibilityContext: one getOneFrom on serverPreferences
getServerVisibilityContextReads(serverId) ==
  <<[table |-> "serverPreferences", serverId |-> serverId]>>

\* the database reads of getAuthorVisibilityContexts: one findUserServerSettingsById
\* per element of uniqueAuthorIds
getAuthorVisibilityContextsReads(serverId, authorIds) ==
  LET uniqueAuthorIds == Unique(authorIds)
  IN [j \in 1..Len(uniqueAuthorIds) |->
        [table |-> "userServerSettings", userId |-> uniqueAuthorIds[j], serverId |-> serverId]]

\* a sanitizer that fetches both contexts again for every message
getSanitizedMessagesReadsPerMessage(messages) ==
  Flat([i \in 1..Len(messages) |->
          getServerVisibilityContextReads(messages[i].serverId)
            \o getAuthorVisibilityContextsReads(messages[i].serverId, <<messages[i].authorId>>)])

\* the database reads of one getSanitizedMessages call, listed server group by server
\* group (the groups run concurrently under Promise.all)
getSanitizedMessagesReads(messages) ==
  IF Len(messages) = 0 THEN <<>>
  ELSE
    LET serverIds == Unique([i \in 1..Len(messages) |-> messages[i].serverId])
    IN Flat([s \in 1..Len(serverIds) |->
               LET serverId == serverIds[s]
                   OfServer(m) == m.serverId = serverId
                   serverMessages == SelectSeq(messages, OfServer)
                   serverAuthorIds ==
                     Unique([i \in 1..Len(serverMessages) |-> serverMessages[i].authorId])
               IN getServerVisibilityContextReads(serverId)
                    \o getAuthorVisibilityContextsReads(serverId, serverAuthorIds)])

\* a single-server sanitizer that looks up no user settings
getSanitizedMessagesForServerNoSettings(db, messages, serverId, authorMap) ==
  IF Len(messages) = 0 THEN <<>>
  ELSE applyVisibilityToMessages(messages, getServerVisibilityContext(db, serverId),
                                 authorMap, <<>>)

getSanitizedMessagesForServer(db, messages, serverId, authorMap) ==
  IF Len(messages) = 0 THEN <<>>
  ELSE
    LET authorIds == Unique([i \in 1..Len(messages) |-> messages[i].authorId])
        serverVisibility == getServerVisibilityContext(db, serverId)
        authorVisibilityMap == getAuthorVisibilityContexts(db, serverId, authorIds)
    IN applyVisibilityToMessages(messages, serverVisibility, authorMap, authorVisibilityMap)

\* the database reads of one getSanitizedMessagesForServer call
getSanitizedMessagesForServerReads(messages, serverId) ==
  IF Len(messages) = 0 THEN <<>>
  ELSE
    LET authorIds == Unique([i \in 1..Len(messages) |-> messages[i].authorId])
    IN getServerVisibilityContextReads(serverId)
         \o getAuthorVisibilityContextsReads(serverId, authorIds)

\* the rows a batch can make the engine read: a serverPreferences row per server
\* of the batch, a userServerSettings row per (author, server) of the batch
Databases(batch) ==
  LET servers == {batch[i].serverId : i \in 1..Len(batch)}
      pairs == {<<batch[i].authorId, batch[i].serverId>> : i \in 1..Len(batch)}
  IN {[prefs |-> prefs, settings |-> settings] :
        prefs \in UNION {[S -> [considerAllMessagesPublicEnabled : OptBools,
                                anonymizeMessagesEnabled : OptBools]] : S \in SUBSET servers},
        settings \in UNION {[P -> [canPubliclyDisplayMessages : BOOLEAN]] : P \in SUBSET pairs}}

\* Map<string, UserVisibilityContext | null> over some of the authors
AuthorVisibilityMaps == UNION {[A -> UserContexts] : A \in SUBSET AuthorIds}

CallIsMessagePublic ==
  /\ vcall = Idle
  /\ \E serverVisibility \in ServerContexts, userVisibility \in UserContexts :
       vcall' = [fn |-> "isMessagePublic",
                 in |-> [serverVisibility |-> serverVisibility,
                         userVisibility |-> userVisibility],
                 out |-> isMessagePublic(serverVisibility, userVisibility)]
  /\ UNCHANGED cacheVars

CallShouldAnonymizeAuthor ==
  /\ vcall = Idle
  /\ \E serverVisibility \in ServerContexts, userVisibility \in UserContexts,
        isPublic \in BOOLEAN :
       vcall' = [fn |-> "shouldAnonymizeAuthor",
                 in |-> [serverVisibility |-> serverVisibility,
                         userVisibility |-> userVisibility, isPublic |-> isPublic],
                 out |-> shouldAnonymizeAuthor(serverVisibility, userVisibility, isPublic)]
  /\ UNCHANGED cacheVars

CallApplyVisibilityToMessages ==
  /\ vcall = Idle
  /\ \E batch \in MessageBatches, serverVisibility \in ServerContexts,
        present \in SUBSET AuthorIds, authorVisibilityMap \in AuthorVisibilityMaps :
       vcall' = [fn |-> "applyVisibilityToMessages",
                 in |-> [messages |-> MessagesOf(batch),
                         serverVisibility |-> serverVisibility,
                         authorMap |-> AuthorMapOf(present),
                         authorVisibilityMap |-> authorVisibilityMap],
                 out |-> applyVisibilityToMessages(MessagesOf(batch), serverVisibility,
                                                   AuthorMapOf(present), authorVisibilityMap)]
  /\ UNCHANGED cacheVars

CallGetSanitizedMessages ==
  /\ vcall = Idle
  /\ \E batch \in MessageBatches, present \in SUBSET AuthorIds :
       \E db \in Databases(batch) :
         vcall' = [fn |-> "getSanitizedMessages",
                   in |-> [db |-> db, messages |-> MessagesOf(batch),
                           authorMap |-> AuthorMapOf(present)],
                   out |-> getSanitizedMessages(db, MessagesOf(batch), AuthorMapOf(present)),
                   reads |-> getSanitizedMessagesReads(MessagesOf(batch))]
  /\ UNCHANGED cacheVars

\* messages in one batch of the calls on longer batches
MaxLongBatch == 3

LongMessageBatches ==
  UNION {[1..n -> [authorId : AuthorIds, serverId : Servers]] : n \in 0..MaxLongBatch}

\* the databases of the calls on longer batches: each server of the batch with or
\* without a serverPreferences row (all messages public), each (author, server) of
\* the batch with or without a consenting userServerSettings row
LongBatchDatabases(batch) ==
  LET servers == {batch[i].serverId : i \in 1..Len(batch)}
      pairs == {<<batch[i].authorId, batch[i].serverId>> : i \in 1..Len(batch)}
  IN {[prefs |-> [s \in S |-> [considerAllMessagesPublicEnabled |-> "true",
                               anonymizeMessagesEnabled |-> Undefined]],
       settings |-> [p \in P |-> [canPubliclyDisplayMessages |-> TRUE]]] :
        S \in SUBSET servers, P \in SUBSET pairs}

\* getSanitizedMessages on a batch of up to MaxLongBatch messages
CallGetSanitizedMessagesLongBatch ==
  /\ vcall = Idle
  /\ \E batch \in LongMessageBatches, present \in SUBSET AuthorIds :
       \E db \in LongBatchDatabases(batch) :
         vcall' = [fn |-> "getSanitizedMessages",
                   in |-> [db |-> db, messages |-> MessagesOf(batch),
                           authorMap |-> AuthorMapOf(present)],
                   out |-> getSanitizedMessages(db, MessagesOf(batch), AuthorMapOf(present)),
                   reads |-> getSanitizedMessagesReads(MessagesOf(batch))]
  /\ UNCHANGED cacheVars

\* getSanitizedMessagesForServer is called with serverId and a batch of messages of
\* one server; the rows it can read are those of serverId
CallGetSanitizedMessagesForServer ==
  /\ vcall = Idle
  /\ \E batch \in MessageBatches, serverId \in Servers, present \in SUBSET AuthorIds :
       /\ \A i \in 1..Len(batch) : batch[i].serverId = batch[1].serverId
       /\ \E db \in Databases([i \in 1..Len(batch) |->
                                  [authorId |-> batch[i].authorId, serverId |-> serverId]]) :
            vcall' = [fn |-> "getSanitizedMessagesForServer",
                      in |-> [db |-> db, messages |-> MessagesOf(batch),
                              serverId |-> serverId, authorMap |-> AuthorMapOf(present)],
                      out |-> getSanitizedMessagesForServer(db, MessagesOf(batch), serverId,
                                                            AuthorMapOf(present)),
                      reads |-> getSanitizedMessagesForServerReads(MessagesOf(batch), serverId)]
  /\ UNCHANGED cacheVars

CallComputeUserVisibility ==
  /\ vcall = Idle
  /\ \E canPubliclyDisplayMessages \in OptBools :
       vcall' = [fn |-> "computeUserVisibility",
                 in |-> [canPubliclyDisplayMessages |-> canPubliclyDisplayMessages],
                 out |-> computeUserVisibility(canPubliclyDisplayMessages)]
  /\ UNCHANGED cacheVars

\* the DiscordAccount rows handed to the author functions: any id, name and avatar
Authors == [id : AuthorIds, name : {"alice", "bob"}, avatar : {Undefined, "alice.png"}]

VisibilityContexts == [server : ServerContexts, user : UserContexts]

CallApplyVisibilityToAuthor ==
  /\ vcall = Idle
  /\ \E author \in {JsNull} \cup Authors, visibility \in VisibilityContexts,
        isPublic \in BOOLEAN :
       vcall' = [fn |-> "applyVisibilityToAuthor",
                 in |-> [author |-> author, visibility |-> visibility, isPublic |-> isPublic],
                 out |-> applyVisibilityToAuthor(author, visibility, isPublic)]
  /\ UNCHANGED cacheVars

\* author id strings handed to the hash, as char codes: "a", "b", "i", "123456789",
\* "987654321" and "12876770945"
HashedIds ==
  AuthorIds \cup {<<105>>, <<49, 50, 51, 52, 53, 54, 55, 56, 57>>,
                  <<57, 56, 55, 54, 53, 52, 51, 50, 49>>,
                  <<49, 50, 56, 55, 54, 55, 55, 48, 57, 52, 53>>}

HashedAuthors == [id : HashedIds, name : {"alice", "bob"}, avatar : {Undefined, "alice.png"}]

\* generateAnonymousName called by anonymizeAuthor: the 32-bit hash that simpleHash
\* hands to Math.abs, the index hash % adjectives.length and the name returned
CallGenerateAnonymousName ==
  /\ vcall = Idle
  /\ \E authorId \in HashedIds :
       vcall' = [fn |-> "generateAnonymousName",
                 in |-> [authorId |-> authorId],
                 hash |-> simpleHashLoop(authorId, 1, 0),
                 index |-> AbsMod(simpleHashLoop(authorId, 1, 0), Len(adjectives)),
                 out |-> generateAnonymousName(authorId)]
  /\ UNCHANGED cacheVars

\* anonymizeAuthor called on two author rows
CallAnonymizeAuthor ==
  /\ vcall = Idle
  /\ \E author1 \in HashedAuthors, author2 \in HashedAuthors :
       vcall' = [fn |-> "anonymizeAuthor",
                 in |-> [author1 |-> author1, author2 |-> author2],
                 out |-> [result1 |-> anonymizeAuthor(author1),
                          result2 |-> anonymizeAuthor(author2)]]
  /\ UNCHANGED cacheVars

\* ---------------------------------------------------------------- cache key
\* getFunctionName(query) of the queries watched
QueryNames == {"servers:publicGetAllServers", "servers:publicGetServerById"}

\* property names and JSON values of an argument object
Props == {"a", "b"}

\* the values of an argument property: numbers (NaN, Infinity and the two zeros
\* among them), strings, and undefined
JsonValues ==
  [type : {"number"}, text : {"1", "2", "0", "-0", "NaN", "Infinity"}]
    \cup [type : {"string"}, text : {"1", "2"}]
    \cup {[type |-> "undefined", text |-> "undefined"]}

\* an argument object: its properties in the order they were written
ArgObjects ==
  {o \in UNION {[1..n -> [prop : Props, value : JsonValues]] : n \in 0..Cardinality(Props)} :
     \A i \in DOMAIN o : \A j \in DOMAIN o : i # j => o[i].prop # o[j].prop}

\* OptionalRestArgs: no argument, or one argument object
RestArgs == {<<>>} \cup {<<o>> : o \in ArgObjects}

\* args[0] ?? {}
extractArgs(args) == IF Len(args) = 0 THEN <<>> ELSE args[1]

\* JSON.stringify of a property value: a string is quoted, a number that is not
\* finite is written null, and -0 is written 0
JSONstringifyValue(v) ==
  IF v.type = "string" THEN "\"" \o v.text \o "\""
  ELSE IF v.text \in {"NaN", "Infinity"} THEN "null"
  ELSE IF v.text = "-0" THEN "0"
  ELSE v.text

\* JSON.stringify of the properties of an object from the i-th on, in insertion order
RECURSIVE JSONstringifyProps(_, _)
JSONstringifyProps(obj, i) ==
  IF i > Len(obj) THEN ""
  ELSE (IF i > 1 THEN "," ELSE "") \o "\"" \o obj[i].prop \o "\":"
         \o JSONstringifyValue(obj[i].value) \o JSONstringifyProps(obj, i + 1)

\* JSON.stringify of an object: a property whose value is undefined is left out
JSONstringifyObject(obj) ==
  LET Serialized(entry) == entry.value.type # "undefined"
  IN "{" \o JSONstringifyProps(SelectSeq(obj, Serialized), 1) \o "}"

watchRequest(query, args) ==
  LET functionName == query
      cacheKey == "{\"functionName\":\"" \o functionName \o "\",\"args\":"
                    \o JSONstringifyObject(args) \o "}"
  IN [query |-> query, args |-> args, cacheKey |-> cacheKey]

\* watchQueryToLiveData builds its request, at two call sites
CallWatchRequest ==
  /\ vcall = Idle
  /\ \E query1 \in QueryNames, query2 \in QueryNames, args1 \in RestArgs, args2 \in RestArgs :
       vcall' = [fn |-> "watchRequest",
                 in |-> [query1 |-> query1, args1 |-> args1,
                         query2 |-> query2, args2 |-> args2],
                 out |-> [request1 |-> watchRequest(query1, extractArgs(args1)),
                          request2 |-> watchRequest(query2, extractArgs(args2))]]
  /\ UNCHANGED cacheVars

\* the call returns to its caller
Return ==
  /\ vcall # Idle
  /\ vcall' = Idle
  /\ UNCHANGED cacheVars

VisNext ==
  \/ CallIsMessagePublic
  \/ CallShouldAnonymizeAuthor
  \/ CallApplyVisibilityToMessages
  \/ CallGetSanitizedMessages
  \/ CallComputeUserVisibility
  \/ CallGenerateAnonymousName
  \/ CallApplyVisibilityToAuthor
  \/ CallAnonymizeAuthor
  \/ Return

Init ==
  /\ activeWatches = <<>>
  /\ liveDataCacheKeys = <<>>
  /\ acq = <<>>
  /\ passes = {}
  /\ ldData = <<>>
  /\ ldUnsub = {}
  /\ callbacks = <<>>
  /\ upstream = {}
  /\ cancelled = {}
  /\ vcall = Idle

Next ==
  \/ \E batch \in Batches : StartPass(batch)
  \/ \E p \in passes, v \in Values : QueryOk(p, v)
  \/ \E p \in passes : QueryFail(p)
  \/ \E p \in passes : SubscribeOk(p)
  \/ \E p \in passes : SubscribeFail(p)
  \/ \E a \in 1..MaxAcq : FinishAcquire(a)
  \/ \E a \in 1..MaxAcq : Release(a)
  \/ \E w \in 1..MaxAcq, v \in Values : OnUpdate(w, v)

Spec == Init /\ [][Next]_vars

VisSpec == Init /\ [][VisNext]_vars

\* the requests built by watchQueryToLiveData
KeyNext ==
  \/ CallWatchRequest
  \/ Return

KeySpec == Init /\ [][KeyNext]_vars

\* the batch sanitizers, called on batches of up to MaxLongBatch messages
SanitizeNext ==
  \/ CallGetSanitizedMessagesLongBatch
  \/ CallGetSanitizedMessagesForServer
  \/ Return

SanitizeSpec == Init /\ [][SanitizeNext]_vars

CancelNext ==
  \/ Next
  \/ \E a \in 1..MaxAcq : Cancel(a)

CancelSpec == Init /\ [][CancelNext]_vars

\* ------------------------------------------------------- one LiveData cell
\* upstream deliveries and destroy() calls on one LiveData
MaxEvents == 4

\* the resolver builds a LiveData over the closure variables currentValue and
\* callbacks after the initial query returned v
NewLiveData ==
  /\ vcall = Idle
  /\ \E v \in Values :
       LET currentValue == v
       IN vcall' = [fn |-> "LiveData", initial |-> v, events |-> <<>>,
                    currentValue |-> currentValue,
                    data |-> LiveDataInit(currentValue, currentValue),
                    unsubscribe |-> TRUE, callbacks |-> {"callback"}]
  /\ UNCHANGED cacheVars

\* the client.onUpdate callback: currentValue = result; callbacks.forEach((cb) => cb())
LiveDataUpdate ==
  /\ vcall.fn = "LiveData" /\ Len(vcall.events) < MaxEvents
  /\ \E result \in Values :
       vcall' = [vcall EXCEPT !.currentValue = result,
                              !.data = IF "callback" \in vcall.callbacks
                                         THEN LiveDataCallback(@, result) ELSE @,
                              !.events = Append(@, result)]
  /\ UNCHANGED cacheVars

\* LiveData.destroy()
LiveDataDestroy ==
  /\ vcall.fn = "LiveData" /\ Len(vcall.events) < MaxEvents
  /\ vcall' = IF vcall.unsubscribe
                THEN [vcall EXCEPT !.callbacks = @ \ {"callback"}, !.unsubscribe = FALSE,
                                   !.events = Append(@, "destroy")]
                ELSE [vcall EXCEPT !.events = Append(@, "destroy")]
  /\ UNCHANGED cacheVars

\* the LiveData is dropped
LiveDataDrop ==
  /\ vcall.fn = "LiveData"
  /\ vcall' = Idle
  /\ UNCHANGED cacheVars

LiveDataNext ==
  \/ NewLiveData
  \/ LiveDataUpdate
  \/ LiveDataDestroy
  \/ LiveDataDrop

LiveDataSpec == Init /\ [][LiveDataNext]_vars

\* passes of up to three requests, without upstream deliveries
MaxPassAcq == 4

MaxPassBatch == 3

PassBatches == UNION {[1..n -> Keys] : n \in 1..MaxPassBatch}

PassNext ==
  \/ \E batch \in PassBatches : StartPassWithin(batch, MaxPassAcq)
  \/ \E p \in passes, v \in Values : QueryOk(p, v)
  \/ \E p \in passes : QueryFail(p)
  \/ \E p \in passes : SubscribeOk(p)
  \/ \E p \in passes : SubscribeFail(p)
  \/ \E a \in 1..MaxPassAcq : FinishAcquire(a)
  \/ \E a \in 1..MaxPassAcq : Release(a)

PassSpec == Init /\ [][PassNext]_vars

\* ------------------------------------------------------------------ claims
Held == {a \in DOMAIN acq : acq[a].st = "held"}

HeldOf(k) == {a \in Held : acq[a].key = k}

\* the key of the request that created watch (and LiveData) w
KeyOfWatch(w) == acq[w].key

\* request a is looked up by the resolver (activeWatches.get) in this step
LookedUp(a) ==
  /\ a \in DOMAIN acq'
  /\ \/ a \notin DOMAIN acq
     \/ acq[a].st = "pending" /\ \A p \in passes : p.reqs[p.i] # a
  /\ \/ acq'[a].st # "pending"
     \/ \E p \in passes' : p.reqs[p.i] = a

\* request a is completed with an existing LiveData in this step
DedupHit(a) == LookedUp(a) /\ acq'[a].st \in {"done", "held"}

\* C1: a request looked up while an earlier acquisition of its key is held and
\* unreleased completes with that holder's LiveData, adds one to the entry's
\* refCount and issues no upstream query and no upstream subscription.
C1_DedupWhileHeld ==
  [][\A a \in DOMAIN acq' : \A b \in Held :
       (LookedUp(a) /\ acq[b].key = acq'[a].key) =>
          /\ DedupHit(a)
          /\ acq'[a].ld = acq[b].ld
          /\ acq'[a].key \in DOMAIN activeWatches
          /\ activeWatches'[acq'[a].key].refCount =
               activeWatches[acq'[a].key].refCount
                 + Cardinality({c \in DOMAIN acq' : DedupHit(c) /\ acq'[c].key = acq'[a].key})
          /\ \A w \in upstream' \ upstream : acq'[w].key # acq'[a].key]_vars

\* C2: once a key has been acquired and every acquisition of it has been released,
\* its ActiveWatch is gone and its upstream watch unsubscribed, so that the next
\* acquisition of the key starts afresh.
C2_TeardownAfterLastRelease ==
  \A k \in Keys :
    ( /\ \E a \in DOMAIN acq : acq[a].key = k /\ acq[a].st = "released"
      /\ \A a \in DOMAIN acq : acq[a].key = k => acq[a].st \in {"released", "failed"} )
    => /\ k \notin DOMAIN activeWatches
       /\ \A w \in upstream : KeyOfWatch(w) # k

\* C3: a LiveData that is still held after some of the acquisitions sharing it were
\* released keeps receiving upstream updates: its watch is still subscribed upstream
\* and its callback is still among those the watch invokes on a delivery (a delivery
\* changes the .data of no other LiveData).
C3_UpdatesAfterPartialRelease ==
  \A a \in Held :
    (\E b \in DOMAIN acq : acq[b].st = "released" /\ acq[b].ld = acq[a].ld)
    => /\ acq[a].ld \in upstream
       /\ acq[a].ld \in Invoked(acq[a].ld)

\* C5: while a key has unreleased acquisitions and none of its acquisitions has been
\* released, its holders all hold one LiveData, every value an upstream watch of the
\* key delivers becomes the .data each holder reads, and the LiveData each holder
\* has stays the same object.
C5_UpdateReachesEveryHolder ==
  [][\A w \in upstream : \A v \in Values \ {Undefined} :
       ( /\ OnUpdate(w, v)
         /\ \A b \in DOMAIN acq : acq[b].key = KeyOfWatch(w) => acq[b].st # "released" )
       => \A a \in HeldOf(KeyOfWatch(w)) :
            /\ acq[a].ld = w
            /\ ldData'[acq[a].ld] = v
            /\ acq'[a].ld = acq[a].ld]_vars

\* C6: an upstream update for one key changes the .data of no LiveData of another
\* key and invokes none of its listeners: no listener of another key is among those
\* the watch invokes, and a step that changes the .data of a LiveData of another key
\* is not a delivery of that watch.
C6_UpdateIsolation ==
  [][\A w \in upstream : \A l \in DOMAIN ldData :
       KeyOfWatch(l) # KeyOfWatch(w) =>
         /\ l \notin Invoked(w)
         /\ ldData'[l] # ldData[l] => \A v \in Values : ~OnUpdate(w, v)]_vars

\* C6 witness: the LiveData of one key carries a delivered value while the LiveData
\* of another key, held, still listening and still subscribed upstream, has never
\* taken a value.
C6_Witness ==
  \E a \in Held : \E b \in Held :
    /\ acq[a].key # acq[b].key
    /\ {acq[a].ld, acq[b].ld} \subseteq ldUnsub \cap upstream
    /\ ldData[acq[a].ld] = "v1"
    /\ ldData[acq[b].ld] = Undefined

\* C7: a key whose acquisitions all succeeded and are all still held has exactly one
\* upstream subscription registered, one LiveData that all of them hold, and a
\* refCount equal to their number, however their resolver passes interleaved.
C7_OneWatchPerKey ==
  \A k \in Keys :
    ( /\ HeldOf(k) # {}
      /\ \A a \in DOMAIN acq : acq[a].key = k => acq[a].st = "held" )
    => /\ Cardinality({w \in upstream : KeyOfWatch(w) = k}) = 1
       /\ k \in DOMAIN activeWatches
       /\ \A a \in HeldOf(k) : acq[a].ld = activeWatches[k].liveData
       /\ activeWatches[k].refCount = Cardinality(HeldOf(k))

\* the requests the step completes with the existing LiveData of key k
HitsInStep(k) ==
  {b \in DOMAIN acq : /\ acq[b].key = k
                      /\ acq[b].st = "pending" /\ acq'[b].st \in {"done", "held"}}

\* C8: when the initial query or the registration of the subscription fails, the
\* acquisition fails, nothing is stored or subscribed for it, it never reaches a
\* state in which its release finalizer runs, and every entry of activeWatches
\* keeps its LiveData and its refCount (up to the later requests of the same pass
\* that the resolver goes on to serve in the same step).
C8_FailureLeavesNoState ==
  [][\A a \in DOMAIN acq :
       /\ (acq[a].st = "pending" /\ acq'[a].st = "failed") =>
            /\ \E p \in passes : p.reqs[p.i] = a /\ (QueryFail(p) \/ SubscribeFail(p))
            /\ acq'[a].ld = 0
            /\ upstream' = upstream
            /\ ldData' = ldData /\ callbacks' = callbacks
            /\ DOMAIN activeWatches' = DOMAIN activeWatches
            /\ \A k \in DOMAIN activeWatches :
                 /\ activeWatches'[k].liveData = activeWatches[k].liveData
                 /\ activeWatches'[k].unsubscribe = activeWatches[k].unsubscribe
                 /\ activeWatches'[k].refCount =
                      activeWatches[k].refCount + Cardinality(HitsInStep(k))
       /\ acq[a].st = "failed" => acq'[a] = acq[a] /\ ~ENABLED Release(a)]_vars

\* C8 witness: an acquisition has failed while another key has an ActiveWatch that
\* is held, and the failed acquisition's key has none.
C8_Witness ==
  \E a \in DOMAIN acq : \E b \in Held :
    /\ acq[a].st = "failed"
    /\ acq[b].key # acq[a].key
    /\ acq[b].key \in DOMAIN activeWatches
    /\ acq[a].key \notin DOMAIN activeWatches

\* C9: isMessagePublic(server, user) is considerAllMessagesPublicEnabled or (user is not
\* null and user.canPubliclyDisplayMessages).
C9_IsMessagePublic ==
  vcall.fn = "isMessagePublic" =>
    vcall.out = ( \/ vcall.in.serverVisibility.considerAllMessagesPublicEnabled
                  \/ ( /\ vcall.in.userVisibility # JsNull
                       /\ vcall.in.userVisibility.canPubliclyDisplayMessages ) )

\* C9 witness: a call with the server flag set and a null user returned true.
C9_Witness ==
  /\ vcall.fn = "isMessagePublic"
  /\ vcall.in.serverVisibility.considerAllMessagesPublicEnabled
  /\ vcall.in.userVisibility = JsNull
  /\ vcall.out = TRUE

\* C10: shouldAnonymizeAuthor(server, user, isPublic) is (not isPublic) or
\* anonymizeMessagesEnabled, whatever the user argument.
C10_ShouldAnonymizeAuthor ==
  vcall.fn = "shouldAnonymizeAuthor" =>
    vcall.out = (~vcall.in.isPublic \/ vcall.in.serverVisibility.anonymizeMessagesEnabled)

\* C10 witness: a non-public author on a server without the anonymize flag is anonymized.
C10_Witness ==
  /\ vcall.fn = "shouldAnonymizeAuthor"
  /\ ~vcall.in.isPublic
  /\ ~vcall.in.serverVisibility.anonymizeMessagesEnabled
  /\ vcall.in.userVisibility # JsNull
  /\ vcall.out = TRUE

\* the anonymized projection of the author row with this id
AnonymousProjection(id) ==
  [id |-> id, name |-> generateAnonymousName(id), avatar |-> Null, public |-> FALSE]

\* the calls that sanitize a batch of messages
SanitizeCall == vcall.fn \in {"applyVisibilityToMessages", "getSanitizedMessages"}

\* the author of message m has not consented on the message's server: no consent
\* recorded (absent or null), or canPubliclyDisplayMessages false
NotConsented(m) ==
  IF vcall.fn = "applyVisibilityToMessages"
    THEN LET uv == GetOrNull(vcall.in.authorVisibilityMap, m.authorId)
         IN uv = JsNull \/ ~uv.canPubliclyDisplayMessages
    ELSE \/ <<m.authorId, m.serverId>> \notin DOMAIN vcall.in.db.settings
         \/ ~vcall.in.db.settings[<<m.authorId, m.serverId>>].canPubliclyDisplayMessages

\* the flags of the server message m is judged under, as given to the call
ServerFlag(m, flag) ==
  IF vcall.fn = "applyVisibilityToMessages"
    THEN IF flag = "considerAll"
           THEN vcall.in.serverVisibility.considerAllMessagesPublicEnabled
           ELSE vcall.in.serverVisibility.anonymizeMessagesEnabled
    ELSE /\ m.serverId \in DOMAIN vcall.in.db.prefs
         /\ IF flag = "considerAll"
              THEN vcall.in.db.prefs[m.serverId].considerAllMessagesPublicEnabled = "true"
              ELSE vcall.in.db.prefs[m.serverId].anonymizeMessagesEnabled = "true"

RealProjection(author, isPublic) ==
  [id |-> author.id, name |-> author.name,
   avatar |-> IF author.avatar = Undefined THEN Null ELSE author.avatar,
   public |-> isPublic]

\* C11: for every message of applyVisibilityToMessages whose author row is present,
\* message.public is considerAllMessagesPublicEnabled or the consent of the author's
\* visibility entry (a missing entry counting as null); the author carries the real
\* name and avatar exactly when message.public is true and anonymizeMessagesEnabled is
\* false, and is the anonymized projection otherwise.
C11_MessagePublicAndAuthor ==
  vcall.fn = "applyVisibilityToMessages" =>
    \A i \in 1..Len(vcall.in.messages) :
      LET m == vcall.in.messages[i]
          sv == vcall.in.serverVisibility
          hasEntry == m.authorId \in DOMAIN vcall.in.authorVisibilityMap
          consent == /\ hasEntry
                     /\ vcall.in.authorVisibilityMap[m.authorId] # JsNull
                     /\ vcall.in.authorVisibilityMap[m.authorId].canPubliclyDisplayMessages
          public == sv.considerAllMessagesPublicEnabled \/ consent
      IN m.authorId \in DOMAIN vcall.in.authorMap =>
           /\ vcall.out[i].message.public = public
           /\ vcall.out[i].author =
                IF public /\ ~sv.anonymizeMessagesEnabled
                  THEN RealProjection(vcall.in.authorMap[m.authorId], TRUE)
                  ELSE AnonymousProjection(m.authorId)

\* C11 witness: on a public server with anonymization on, a message of a present
\* author without visibility entry is public and its author anonymized.
C11_Witness ==
  /\ vcall.fn = "applyVisibilityToMessages"
  /\ vcall.in.serverVisibility.considerAllMessagesPublicEnabled
  /\ vcall.in.serverVisibility.anonymizeMessagesEnabled
  /\ \E i \in 1..Len(vcall.in.messages) :
       /\ vcall.in.messages[i].authorId \in DOMAIN vcall.in.authorMap
       /\ vcall.in.messages[i].authorId \notin DOMAIN vcall.in.authorVisibilityMap
       /\ vcall.out[i].message.public
       /\ vcall.out[i].author = AnonymousProjection(vcall.in.messages[i].authorId)
\* the step is a release that takes the refCount of the entry of key k from 1 to 0
ReleaseToZero(k) ==
  \E a \in Held :
    /\ acq'[a].st = "released"
    /\ acq[a].ld \in DOMAIN liveDataCacheKeys
    /\ liveDataCacheKeys[acq[a].ld] = k
    /\ activeWatches[k].refCount = 1

\* C12: every ActiveWatch in the map has refCount >= 1 after every step, and an entry
\* leaves the map exactly in the release step that takes its refCount to 0.
C12_RefCountAtLeastOne ==
  [][/\ \A k \in DOMAIN activeWatches' : activeWatches'[k].refCount >= 1
     /\ \A k \in DOMAIN activeWatches :
          (k \notin DOMAIN activeWatches') <=> ReleaseToZero(k)]_vars

\* C12 witness: the entry of one key was deleted by the release of its only
\* acquisition while the entry of another key has refCount 2.
C12_Witness ==
  /\ \E a \in DOMAIN acq :
       /\ acq[a].st = "released"
       /\ acq[a].key \notin DOMAIN activeWatches
       /\ acq[a].ld \notin upstream
  /\ \E k \in DOMAIN activeWatches : activeWatches[k].refCount = 2
\* the two argument objects have the same properties with the same values
StructurallyEqual(o1, o2) == {o1[i] : i \in DOMAIN o1} = {o2[i] : i \in DOMAIN o2}

\* the arguments an object passes to the query: its properties that are not
\* undefined, with -0 and 0 as the one number they are
PassedArguments(o) ==
  {[prop |-> o[i].prop,
    value |-> IF o[i].value = [type |-> "number", text |-> "-0"]
                THEN [type |-> "number", text |-> "0"] ELSE o[i].value] :
     i \in {j \in DOMAIN o : o[j].value.type # "undefined"}}

\* C13: two requests that differ in the query's function name or in the arguments
\* they pass have different cache keys, the keys under which activeWatches stores
\* the ActiveWatch and its LiveData.
C13_DistinctQueriesDistinctKeys ==
  ( /\ vcall.fn = "watchRequest"
    /\ \/ vcall.in.query1 # vcall.in.query2
       \/ PassedArguments(vcall.out.request1.args)
            # PassedArguments(vcall.out.request2.args) )
  => vcall.out.request1.cacheKey # vcall.out.request2.cacheKey

\* C14: two requests with the same query and structurally equal argument objects
\* have the same cache key, in whatever order the properties were written.
C14_CanonicalKey ==
  ( /\ vcall.fn = "watchRequest"
    /\ vcall.in.query1 = vcall.in.query2
    /\ StructurallyEqual(vcall.out.request1.args, vcall.out.request2.args) )
  => vcall.out.request1.cacheKey = vcall.out.request2.cacheKey
\* acquisitions of key k other than a that are still outstanding
OutstandingOthers(a) ==
  {b \in DOMAIN acq \ {a} : acq[b].key = acq[a].key /\ acq[b].st \in {"pending", "done", "held"}}

\* C15: once the fetch of an acquisition whose scope was closed before the fetch
\* resolved has resolved and its finalizers have run, no ActiveWatch remains for its
\* key unless another acquisition of the key is still outstanding.
C15_CancelledLeavesNoWatch ==
  \A a \in cancelled :
    (acq[a].st \in {"released", "failed"} /\ OutstandingOthers(a) = {})
    => acq[a].key \notin DOMAIN activeWatches
\* the consent recorded for the author of message m on the server of m
ConsentOnOwnServer(m) ==
  /\ <<m.authorId, m.serverId>> \in DOMAIN vcall.in.db.settings
  /\ vcall.in.db.settings[<<m.authorId, m.serverId>>].canPubliclyDisplayMessages

\* C16: getSanitizedMessages emits every message of a mixed-server batch once, judged
\* under the flags of the message's own server and the consent recorded for the pair
\* (message.authorId, message.serverId): public is the server's considerAll flag or
\* that consent, and a present author is real exactly when the message is public and
\* that server does not anonymize.
C16_PerServerJudgement ==
  vcall.fn = "getSanitizedMessages" =>
    /\ Len(vcall.out) = Len(vcall.in.messages)
    /\ {vcall.out[i].message.id : i \in 1..Len(vcall.out)} = 1..Len(vcall.in.messages)
    /\ \A i \in 1..Len(vcall.out) :
         LET m == vcall.out[i].message
             public == ServerFlag(m, "considerAll") \/ ConsentOnOwnServer(m)
         IN /\ m.authorId = vcall.in.messages[m.id].authorId
            /\ m.serverId = vcall.in.messages[m.id].serverId
            /\ m.public = public
            /\ m.authorId \in DOMAIN vcall.in.authorMap =>
                 vcall.out[i].author =
                   IF public /\ ~ServerFlag(m, "anonymize")
                     THEN RealProjection(vcall.in.authorMap[m.authorId], TRUE)
                     ELSE AnonymousProjection(m.authorId)

\* C16 witness: one author with consent on one server and a refusal on another has a
\* message on each; the first is public with the real author, the second is not
\* public and its author anonymized.
C16_Witness ==
  /\ vcall.fn = "getSanitizedMessages"
  /\ \E i \in 1..Len(vcall.out) : \E j \in 1..Len(vcall.out) :
       LET m == vcall.out[i].message
           n == vcall.out[j].message
       IN /\ m.authorId = n.authorId /\ m.serverId # n.serverId
          /\ ConsentOnOwnServer(m)
          /\ <<n.authorId, n.serverId>> \in DOMAIN vcall.in.db.settings
          /\ ~ConsentOnOwnServer(n)
          /\ ~ServerFlag(m, "anonymize")
          /\ ~ServerFlag(n, "considerAll")
          /\ m.authorId \in DOMAIN vcall.in.authorMap
          /\ m.public /\ vcall.out[i].author.public
          /\ ~n.public /\ vcall.out[j].author = AnonymousProjection(n.authorId)
\* C17: applyVisibilityToMessages returns one pair per input message in input order,
\* output[i].message being input[i] with only the public field added, also for
\* messages whose author row or visibility entry is missing.
C17_OnePairPerMessageInOrder ==
  vcall.fn = "applyVisibilityToMessages" =>
    /\ Len(vcall.out) = Len(vcall.in.messages)
    /\ \A i \in 1..Len(vcall.in.messages) :
         LET m == vcall.in.messages[i]
         IN \E public \in BOOLEAN :
              vcall.out[i].message = [id |-> m.id, authorId |-> m.authorId,
                                      serverId |-> m.serverId, public |-> public]

\* C17 witness: of two messages of different authors the first has neither author
\* row nor visibility entry, and both are returned, in order.
C17_Witness ==
  /\ vcall.fn = "applyVisibilityToMessages"
  /\ Len(vcall.in.messages) = 2
  /\ vcall.in.messages[1].authorId # vcall.in.messages[2].authorId
  /\ vcall.in.messages[1].authorId \notin DOMAIN vcall.in.authorMap
  /\ vcall.in.messages[1].authorId \notin DOMAIN vcall.in.authorVisibilityMap
  /\ vcall.in.messages[2].authorId \in DOMAIN vcall.in.authorMap
  /\ Len(vcall.out) = 2
  /\ vcall.out[1].message.id = 1 /\ vcall.out[2].message.id = 2

\* C18: every non-null author produced by applyVisibilityToAuthor keeps the id of the
\* input row; its avatar is null if its public field is false; and if it is not the
\* anonymized projection its public field is the isPublic passed in, which is true.
C18_SanitizedAuthorShape ==
  (vcall.fn = "applyVisibilityToAuthor" /\ vcall.out # JsNull) =>
    /\ vcall.out.id = vcall.in.author.id
    /\ ~vcall.out.public => vcall.out.avatar = Null
    /\ vcall.out # AnonymousProjection(vcall.in.author.id) =>
         vcall.out.public = vcall.in.isPublic /\ vcall.in.isPublic

\* C18 witness: a row with an avatar, passed with isPublic false, comes back with its
\* id, public false and avatar null.
C18_Witness ==
  /\ vcall.fn = "applyVisibilityToAuthor"
  /\ vcall.in.author # JsNull
  /\ vcall.in.author.avatar = "alice.png"
  /\ ~vcall.in.isPublic
  /\ vcall.out.id = vcall.in.author.id
  /\ ~vcall.out.public /\ vcall.out.avatar = Null

\* C19: applyVisibilityToAuthor returns null exactly when its author argument is null,
\* and applyVisibilityToMessages emits author null for a message exactly when the
\* message's authorId is absent from authorMap, the message still being emitted with
\* its public flag.
C19_NullOnlyForMissingAuthor ==
  /\ vcall.fn = "applyVisibilityToAuthor" =>
       ((vcall.out = JsNull) <=> (vcall.in.author = JsNull))
  /\ vcall.fn = "applyVisibilityToMessages" =>
       /\ Len(vcall.out) = Len(vcall.in.messages)
       /\ \A i \in 1..Len(vcall.in.messages) :
            /\ (vcall.out[i].author = JsNull) <=>
                 (vcall.in.messages[i].authorId \notin DOMAIN vcall.in.authorMap)
            /\ vcall.out[i].message.id = vcall.in.messages[i].id
            /\ vcall.out[i].message.public \in BOOLEAN

\* C19 witness: a message whose author row is missing is emitted as not public with
\* author null, next to a non-public message whose present author is not null.
C19_Witness ==
  /\ vcall.fn = "applyVisibilityToMessages"
  /\ \E i \in 1..Len(vcall.out) : \E j \in 1..Len(vcall.out) :
       /\ vcall.in.messages[i].authorId \notin DOMAIN vcall.in.authorMap
       /\ vcall.out[i].author = JsNull
       /\ ~vcall.out[i].message.public
       /\ vcall.in.messages[j].authorId \in DOMAIN vcall.in.authorMap
       /\ ~vcall.out[j].message.public
       /\ vcall.out[j].author # JsNull

\* C20: anonymizeAuthor gives two rows with the same id the same pseudo-name,
\* whatever their name and avatar, and its result keeps the id and has avatar null.
C20_AnonymizeByIdAlone ==
  vcall.fn = "anonymizeAuthor" =>
    /\ vcall.in.author1.id = vcall.in.author2.id =>
         vcall.out.result1.name = vcall.out.result2.name
    /\ vcall.out.result1.id = vcall.in.author1.id /\ vcall.out.result1.avatar = Null
    /\ vcall.out.result2.id = vcall.in.author2.id /\ vcall.out.result2.avatar = Null

\* C20 witness: two rows with one id but different names and avatars got one
\* pseudo-name, which is neither of their names.
C20_Witness ==
  /\ vcall.fn = "anonymizeAuthor"
  /\ vcall.in.author1.id = vcall.in.author2.id
  /\ vcall.in.author1.name # vcall.in.author2.name
  /\ vcall.in.author1.avatar # vcall.in.author2.avatar
  /\ vcall.out.result1.name = vcall.out.result2.name
  /\ vcall.out.result1.name \notin {vcall.in.author1.name, vcall.in.author2.name}
\* the number of times read r occurs among the reads of the call
ReadCount(r) == Cardinality({i \in DOMAIN vcall.reads : vcall.reads[i] = r})

PrefsRead(serverId) == [table |-> "serverPreferences", serverId |-> serverId]

SettingsRead(authorId, serverId) ==
  [table |-> "userServerSettings", userId |-> authorId, serverId |-> serverId]

\* C21: one getSanitizedMessages call reads the server preferences exactly once per
\* distinct serverId of the batch and the user-server settings exactly once per
\* distinct (serverId, authorId) pair of the batch, and nothing else, however many
\* messages there are; getSanitizedMessagesForServer on a non-empty batch reads the
\* preferences of its server once and the settings once per distinct authorId.
C21_ReadsOncePerServerAndPair ==
  /\ vcall.fn = "getSanitizedMessages" =>
       LET ms == vcall.in.messages
       IN /\ \A s \in Servers :
               ReadCount(PrefsRead(s)) =
                 IF \E i \in 1..Len(ms) : ms[i].serverId = s THEN 1 ELSE 0
          /\ \A s \in Servers : \A a \in AuthorIds :
               ReadCount(SettingsRead(a, s)) =
                 IF \E i \in 1..Len(ms) : ms[i].serverId = s /\ ms[i].authorId = a
                   THEN 1 ELSE 0
          /\ \A i \in DOMAIN vcall.reads :
               vcall.reads[i] \in {PrefsRead(s) : s \in Servers}
                                    \cup {SettingsRead(a, s) : a \in AuthorIds, s \in Servers}
  /\ (vcall.fn = "getSanitizedMessagesForServer" /\ Len(vcall.in.messages) > 0) =>
       LET ms == vcall.in.messages
       IN /\ ReadCount(PrefsRead(vcall.in.serverId)) = 1
          /\ \A a \in AuthorIds :
               ReadCount(SettingsRead(a, vcall.in.serverId)) =
                 IF \E i \in 1..Len(ms) : ms[i].authorId = a THEN 1 ELSE 0
          /\ Len(vcall.reads) =
               1 + Cardinality({ms[i].authorId : i \in 1..Len(ms)})

\* C21 witness: a getSanitizedMessages call on two messages of one author on one
\* server made two reads in all.
C21_Witness ==
  /\ vcall.fn = "getSanitizedMessages"
  /\ Len(vcall.in.messages) = 2
  /\ vcall.in.messages[1].serverId = vcall.in.messages[2].serverId
  /\ vcall.in.messages[1].authorId = vcall.in.messages[2].authorId
  /\ Len(vcall.reads) = 2
\* C22: computeUserVisibility returns null if and only if its input is undefined; for
\* true and for false it returns a context carrying that same boolean, so that an
\* explicit false differs from an absent record.
C22_ComputeUserVisibility ==
  vcall.fn = "computeUserVisibility" =>
    LET input == vcall.in.canPubliclyDisplayMessages
    IN /\ (vcall.out = JsNull) <=> (input = Undefined)
       /\ input = "true" => vcall.out = [canPubliclyDisplayMessages |-> TRUE]
       /\ input = "false" => vcall.out = [canPubliclyDisplayMessages |-> FALSE]

\* C22 witness: called with false, it returned a context that is not null and
\* carries false.
C22_Witness ==
  /\ vcall.fn = "computeUserVisibility"
  /\ vcall.in.canPubliclyDisplayMessages = "false"
  /\ vcall.out # JsNull
  /\ ~vcall.out.canPubliclyDisplayMessages
\* the index simpleHash(id) % adjectives.length of an author id
HashIndex(id) == AbsMod(simpleHashLoop(id, 1, 0), Len(adjectives))

\* C23 as claimed: anonymizeAuthor gives any two authors whose ids differ different
\* pseudo-names.
C23_DifferentIdsDifferentNames ==
  (vcall.fn = "anonymizeAuthor" /\ vcall.in.author1.id # vcall.in.author2.id) =>
    vcall.out.result1.name # vcall.out.result2.name

\* C23 as amended: anonymizeAuthor gives two authors different pseudo-names exactly
\* when the hashes of their ids differ modulo the eight adjectives, as for the ids
\* "123456789" and "987654321"; ids whose hashes agree modulo eight share a name.
C23_DifferentIndexDifferentNames ==
  vcall.fn = "anonymizeAuthor" =>
    /\ (vcall.out.result1.name # vcall.out.result2.name)
         <=> (HashIndex(vcall.in.author1.id) # HashIndex(vcall.in.author2.id))
    /\ ( /\ vcall.in.author1.id = <<49, 50, 51, 52, 53, 54, 55, 56, 57>>
         /\ vcall.in.author2.id = <<57, 56, 55, 54, 53, 52, 51, 50, 49>> )
         => vcall.out.result1.name # vcall.out.result2.name

\* C23 witness: the ids "123456789" and "987654321", both named alice, got the
\* different pseudo-names "Hidden User" and "Private User".
C23_Witness ==
  /\ vcall.fn = "anonymizeAuthor"
  /\ vcall.in.author1.id = <<49, 50, 51, 52, 53, 54, 55, 56, 57>>
  /\ vcall.in.author2.id = <<57, 56, 55, 54, 53, 52, 51, 50, 49>>
  /\ vcall.in.author1.name = vcall.in.author2.name
  /\ vcall.out.result1.name = "Hidden User"
  /\ vcall.out.result2.name = "Private User"
\* the eight fixed pseudo-names
FixedNames == {adjectives[i] \o " User" : i \in 1..Len(adjectives)}

\* C30: for every author id the index simpleHash(id) % 8 lies in 0..7, for a negative
\* 32-bit hash and for the hash -2^31 as well, so that the pseudo-name is one of the
\* eight fixed "<Adjective> User" strings and never built from an undefined
\* adjective. (Math.abs(-2^31) = 2^31 is positive; it enters through its remainder.)
C30_NameIsOneOfEight ==
  vcall.fn = "generateAnonymousName" =>
    /\ vcall.index \in 0..7
    /\ vcall.out = adjectives[vcall.index + 1] \o " User"
    /\ vcall.out \in FixedNames
    /\ vcall.out # Undefined \o " User"

\* C30 witness: the id "12876770945", whose 32-bit hash is -2^31, got index 0 and
\* the name "Anonymous User".
C30_Witness ==
  /\ vcall.fn = "generateAnonymousName"
  /\ vcall.hash = MinInt32
  /\ vcall.index = 0
  /\ vcall.out = "Anonymous User"
\* C24: a release that finds no cache-key record for its LiveData (the record was
\* removed by an earlier release) is surfaced as an error: it does not complete as
\* an ordinary release.
C24_UnmatchedReleaseSurfaced ==
  [][\A a \in Held :
       ( /\ acq'[a].st # "held"
         /\ acq[a].ld \notin DOMAIN liveDataCacheKeys )
       => acq'[a].st = "release-failed"]_vars
\* the acquisitions of key k that have succeeded and are not yet released
Outstanding(k) == {a \in DOMAIN acq : acq[a].key = k /\ acq[a].st \in {"done", "held"}}

\* C25: in every reachable state the refCount of a key's ActiveWatch is the number of
\* acquisitions of the key that have succeeded and are not yet released, and the key
\* has no entry when that number is 0.
C25_RefCountIsOutstanding ==
  \A k \in Keys :
    IF Outstanding(k) = {}
      THEN k \notin DOMAIN activeWatches
      ELSE /\ k \in DOMAIN activeWatches
           /\ activeWatches[k].refCount = Cardinality(Outstanding(k))
\* C26: for a batch whose messages all share the one serverId S,
\* getSanitizedMessagesForServer(messages, S, authorMap) returns the sequence of pairs
\* that getSanitizedMessages(messages, authorMap) returns; on an empty batch both
\* return an empty list without any read.
C26_ForServerEqualsGrouped ==
  /\ vcall.fn = "getSanitizedMessagesForServer" =>
       /\ (\A i \in 1..Len(vcall.in.messages) :
              vcall.in.messages[i].serverId = vcall.in.serverId)
            => vcall.out = getSanitizedMessages(vcall.in.db, vcall.in.messages,
                                                vcall.in.authorMap)
       /\ Len(vcall.in.messages) = 0 => (vcall.out = <<>> /\ vcall.reads = <<>>)
  /\ (vcall.fn = "getSanitizedMessages" /\ Len(vcall.in.messages) = 0) =>
       (vcall.out = <<>> /\ vcall.reads = <<>>)

\* C26 witness: getSanitizedMessagesForServer returned two pairs for two messages
\* of its server, one public by its author's consent and one not public.
C26_Witness ==
  /\ vcall.fn = "getSanitizedMessagesForServer"
  /\ Len(vcall.in.messages) = 2
  /\ \A i \in 1..2 : vcall.in.messages[i].serverId = vcall.in.serverId
  /\ Len(vcall.out) = 2
  /\ vcall.out[1].message.public
  /\ ~vcall.out[2].message.public
\* the position of the first message of the call's input that is of server s
FirstOfServer(s) ==
  CHOOSE i \in 1..Len(vcall.in.messages) :
    /\ vcall.in.messages[i].serverId = s
    /\ \A j \in 1..(i - 1) : vcall.in.messages[j].serverId # s

\* the call's input lists its messages server by server
InputGrouped ==
  \A i \in 1..Len(vcall.in.messages) : \A j \in i..Len(vcall.in.messages) :
    FirstOfServer(vcall.in.messages[i].serverId) <= FirstOfServer(vcall.in.messages[j].serverId)

\* C27: getSanitizedMessages returns exactly one pair per input message, grouped by
\* server: the servers in the order of their first message in the input, the messages
\* of one server in input order; the output is in input order exactly when the input
\* is already grouped that way.
C27_GroupedByServer ==
  vcall.fn = "getSanitizedMessages" =>
    LET ms == vcall.in.messages
        out == vcall.out
    IN /\ Len(out) = Len(ms)
       /\ \A i \in 1..Len(ms) :
            Cardinality({p \in 1..Len(out) : out[p].message.id = ms[i].id}) = 1
       /\ \A p \in 1..Len(out) :
            /\ out[p].message.id \in 1..Len(ms)
            /\ out[p].message.serverId = ms[out[p].message.id].serverId
            /\ out[p].message.authorId = ms[out[p].message.id].authorId
       /\ \A p \in 1..Len(out) : \A q \in (p + 1)..Len(out) :
            IF out[p].message.serverId = out[q].message.serverId
              THEN out[p].message.id < out[q].message.id
              ELSE FirstOfServer(out[p].message.serverId)
                     < FirstOfServer(out[q].message.serverId)
       /\ (\A p \in 1..Len(out) : out[p].message.id = ms[p].id) <=> InputGrouped

\* C27 witness: the messages 1, 2, 3 of the servers s1, s2, s1 came back in the
\* order 1, 3, 2.
C27_Witness ==
  /\ vcall.fn = "getSanitizedMessages"
  /\ Len(vcall.in.messages) = 3
  /\ vcall.in.messages[1].serverId = vcall.in.messages[3].serverId
  /\ vcall.in.messages[1].serverId # vcall.in.messages[2].serverId
  /\ Len(vcall.out) = 3
  /\ vcall.out[1].message.id = 1
  /\ vcall.out[2].message.id = 3
  /\ vcall.out[3].message.id = 2
\* the request that pass p is handling
Current(p) == p.reqs[p.i]

\* request p.reqs[j] of pass p registered its own watch earlier in the pass, and
\* its requester has not released it
RegisteredInPass(p, j) ==
  /\ j < p.i
  /\ acq[p.reqs[j]].st \in {"done", "held"}
  /\ acq[p.reqs[j]].ld = p.reqs[j]

\* the requests of a pass are handled one at a time in request order: those before
\* the current one are completed, the current one and those after it are not
HandledInOrder ==
  \A p \in passes : \A j \in 1..Len(p.reqs) :
    (acq[p.reqs[j]].st = "pending") <=> (j >= p.i)

\* a request whose fetch failed registered nothing
FailedRegisteredNothing ==
  \A a \in DOMAIN acq :
    acq[a].st = "failed" =>
      /\ a \notin upstream
      /\ a \notin DOMAIN ldData
      /\ \A k \in DOMAIN activeWatches : activeWatches[k].liveData # a

\* every request not yet completed is still to be handled by its pass
StillProcessed ==
  \A a \in DOMAIN acq :
    acq[a].st = "pending" => \E p \in passes : \E j \in p.i..Len(p.reqs) : p.reqs[j] = a

\* a pass queries upstream for no key that it registered earlier itself
DedupWithinPass ==
  \A p \in passes : \A j \in 1..Len(p.reqs) :
    RegisteredInPass(p, j) => acq[p.reqs[j]].key # acq[Current(p)].key

\* a completed request keeps its completion: it is completed once
CompletedOnce ==
  \A a \in DOMAIN acq :
    acq[a].st # "pending" =>
      /\ acq'[a].st # "pending"
      /\ (acq[a].st = "failed") <=> (acq'[a].st = "failed")
      /\ acq'[a].ld = acq[a].ld
\* C28: within one resolver pass the requests are handled one at a time in request
\* order and each is completed exactly once; a request whose fetch fails completes
\* with the failure and registers nothing, and the later requests of the pass are
\* still processed; a later request for a key the pass registered earlier takes the
\* dedup path, with no second upstream query.
C28_PassHandlesEachRequestOnce ==
  [][/\ HandledInOrder'
     /\ FailedRegisteredNothing'
     /\ StillProcessed'
     /\ CompletedOnce
     /\ DedupWithinPass']_vars
\* the .data a LiveData built on value data must show after events: the last
\* delivered value that is not undefined among the events before the first destroy
RECURSIVE ExpectedData(_, _, _)
ExpectedData(data, events, i) ==
  IF i > Len(events) \/ events[i] = "destroy" THEN data
  ELSE ExpectedData(IF events[i] = Undefined THEN data ELSE events[i], events, i + 1)

\* C29: the .data of a LiveData starts as the result of the initial query (null stays
\* null) and after each upstream update is the most recently delivered value that
\* was not undefined: undefined leaves it unchanged, any other value, null included,
\* replaces it; after destroy() no update changes it, and a second destroy() has no
\* effect.
C29_LiveDataShowsLastDefined ==
  vcall.fn = "LiveData" =>
    /\ vcall.data = ExpectedData(vcall.initial, vcall.events, 1)
    /\ (\E i \in 1..Len(vcall.events) : vcall.events[i] = "destroy")
         <=> (~vcall.unsubscribe /\ vcall.callbacks = {})

\* C29 witness: a LiveData that started at "v1" was delivered null, destroyed twice
\* and then delivered "v1", and shows null.
C29_Witness ==
  /\ vcall.fn = "LiveData"
  /\ vcall.initial = "v1"
  /\ vcall.events = <<Null, "destroy", "destroy", "v1">>
  /\ vcall.data = Null
====
